---- MODULE Spec2Model ----
(***************************************************************************)
(* Model of renderstim.latents.dataset.latent_dataset and of               *)
(* renderstim.latents.hdri.get_hdri_id.                                    *)
(*                                                                         *)
(* One behaviour is a caller that invokes latent_dataset repeatedly with   *)
(* the same arguments.  A call is cut into the steps of its body:          *)
(* validation (lines 98-147), the seed draw (150-152), and, per seed, the  *)
(* head of the loop body (154-166), the world branch (168-194), the        *)
(* lighting branch (198-220), the static copies (223-241), the object      *)
(* count and shapes (247-264), the per-object attributes (267-290) and the *)
(* append (293).                                                           *)
(*                                                                         *)
(* Numbers: lengths are in hundredths (sun_position, uniform(-1, 1),       *)
(* ambient illumination, scales, angles) and friction / restitution in     *)
(* tenths, so that every value is an integer.                              *)
(*                                                                         *)
(* Python's None is the empty tuple and a present optional value v is the  *)
(* one-element tuple <<v>>.  A dict is a function from its keys; a key     *)
(* that was never assigned is outside the DOMAIN.                          *)
(***************************************************************************)
EXTENDS Integers, Sequences, FiniteSets, TLC

\* ---------------------------------------------------------------- bounds
\* largest num_scenes the caller passes
MaxScenes == 3
\* size of the seed pool; stands for the 2147483647 of line 151
SeedUpper == 2
\* largest min_num_objects / max_num_objects the caller passes
MaxObjects == 2

\* ------------------------------------------------------------- catalogs
KUBASIC_IDS ==
    <<"cube", "cylinder", "sphere", "cone", "torus", "gear",
      "torus_knot", "sponge", "spot", "suzanne">>

GSO_IDS == <<"gso_shoe", "gso_mug", "gso_toy">>

TEXTURES ==
    <<"NONE", "CLOUDS", "DISTORTED_NOISE", "MAGIC", "MARBLE",
      "MUSGRAVE", "STUCCI", "VORONOI", "WOOD">>

\* keys of json.load(f)['assets'] of HDRI_haven.json
HDRI_IDS == <<"hdri_sky", "hdri_forest", "hdri_studio">>

\* ------------------------------------------------------- python values
None == <<>>
Some(v) == <<v>>

EmptyDict == [k \in {} |-> None]

\* d[k] = v
SetItem(d, k, v) == [x \in (DOMAIN d) \cup {k} |-> IF x = k THEN v ELSE d[x]]

\* reference to the list object bound to the argument sun_position
SunRef == "@sun_position"

\* ------------------------------------------------------- random streams
\* The k-th raw output of np.random.RandomState(seed): a fixed function of
\* the seed and of the position in the stream (stand-in for MT19937).
Raw(seed, pos) == (seed * 389 + pos * 151 + seed * pos * 67 + 211) % 997

NoRng == [kind |-> "none", seed |-> -1, pos |-> 0]
DefaultRng == [kind |-> "default_rng", seed |-> -1, pos |-> 0]
RandomState(seed) == [kind |-> "RandomState", seed |-> seed, pos |-> 0]

\* the stream after n more draws
Advance(r, n) == [r EXCEPT !.pos = @ + n]

\* rng.uniform(lo, hi): a value of [lo, hi), the next draw of the stream
uniform(r, lo, hi) == lo + (Raw(r.seed, r.pos) % (hi - lo))

\* rng.uniform(lo, hi, size=n): n consecutive draws
uniform_size(r, lo, hi, n) ==
    [k \in 1..n |-> lo + (Raw(r.seed, r.pos + k - 1) % (hi - lo))]

\* rng.choice(seq): one entry of seq, the next draw of the stream
choice(r, seq) == seq[1 + (Raw(r.seed, r.pos) % Len(seq))]

\* rng.choice(seq, size=n): n entries, with replacement
choice_size(r, seq, n) ==
    [k \in 1..n |-> seq[1 + (Raw(r.seed, r.pos + k - 1) % Len(seq))]]

\* rng.randint(low, high) with low < high: a value of [low, high)
randint(r, low, high) == low + (Raw(r.seed, r.pos) % (high - low))

\* ---------------------------------------------- samplers outside dataset.py
\* get_material(rng): a material record, one draw of the stream
get_material(r) == [roughness |-> Raw(r.seed, r.pos) % 100]

\* get_texture(kind, rng, background): a texture record, one draw
get_texture(kind, r, background) ==
    [texture_type |-> kind, scale |-> Raw(r.seed, r.pos) % 100,
     background |-> background]

\* get_quaternion(axis, angle): rotation by angle about one axis; the
\* components are kept as the half angle on w and on the chosen axis
get_quaternion(axis, angle) ==
    [w |-> angle \div 2,
     x |-> IF axis = "x" THEN angle \div 2 ELSE 0,
     y |-> IF axis = "y" THEN angle \div 2 ELSE 0,
     z |-> IF axis = "z" THEN angle \div 2 ELSE 0]

\* ------------------------------------------------------------ arguments
VARIABLES params, sun_position, pc, error, rng, seeds, i, latents,
          scenes, opens, history

vars == <<params, sun_position, pc, error, rng, seeds, i, latents,
          scenes, opens, history>>

Vec3 == <<0, 0, 0>>
Vec2 == <<0, 0>>

DefaultSpawn == <<<<-250, -300, 20>>, <<250, 300, 150>>>>
InvertedSpawn == <<<<250, -300, 20>>, <<-250, 300, 150>>>>

\* the default arguments of lines 42-61, without num_scenes
Defaults ==
    [resolution |-> <<256, 144>>,
     min_num_objects |-> 1,
     max_num_objects |-> 2,
     spawn_region |-> DefaultSpawn,
     lighting |-> "sun",
     hdri_world |-> FALSE,
     camera_position |-> <<0, -800, 360>>,
     camera_look_at |-> <<0, 0, 50>>,
     camera_focal_length |-> 3200,
     camera_sensor_width |-> 3000,
     floor_scale |-> <<2000, 4000, 1>>,
     floor_position |-> Vec3,
     floor_friction |-> 3,
     floor_restitution |-> 5,
     background_type |-> "artificial",
     asset_source |-> "kubasic",
     velocity_range |-> <<<<-400, -400, 0>>, <<400, 400, 0>>>>]

Lightings == {"sun", "ambient_hdri", "moonlight"}
AssetSources == {"kubasic", "GSO", "basic-shapes"}
BackgroundTypes == {"artificial", "realistic", "photo"}

\* calls that differ in the enumerated modes and in the object range
ModeCalls ==
    { [[[[[[Defaults EXCEPT !.lighting = l]
                     EXCEPT !.asset_source = a]
                     EXCEPT !.background_type = b]
                     EXCEPT !.hdri_world = h]
                     EXCEPT !.min_num_objects = lo]
                     EXCEPT !.max_num_objects = hi] :
        l \in Lightings, a \in AssetSources, b \in BackgroundTypes,
        h \in BOOLEAN, lo \in 0..MaxObjects, hi \in 0..MaxObjects }

SpawnRegions ==
    { DefaultSpawn, InvertedSpawn,
      <<<<-250, -300, 20>>>>,
      <<<<-250, -300, 20>>, <<250, 300, 150>>, <<250, 300, 150>>>>,
      <<<<-250, -300>>, <<250, 300, 150>>>>,
      <<<<-250, -300, 20>>, <<250, 300, 150, 0>>>> }

Frictions == {-1, 0, 3, 10, 11}

\* calls that differ in the shapes and ranges that validation looks at
ShapeCalls ==
    { [[[[[[[[Defaults EXCEPT !.resolution = res]
                       EXCEPT !.spawn_region = sr]
                       EXCEPT !.camera_position = cp]
                       EXCEPT !.camera_look_at = cl]
                       EXCEPT !.floor_scale = fs]
                       EXCEPT !.floor_position = fp]
                       EXCEPT !.floor_friction = ff]
                       EXCEPT !.floor_restitution = fr] :
        res \in {<<256>>, <<256, 144>>}, sr \in SpawnRegions,
        cp \in {<<0, -800, 360>>, Vec2}, cl \in {<<0, 0, 50>>, Vec2},
        fs \in {<<2000, 4000, 1>>, Vec2}, fp \in {Vec3, Vec2},
        ff \in Frictions, fr \in Frictions }

SunPositions == {<<0, 0, 700>>, <<0, 0>>}

\* ----------------------------------------------------------- validation
\* ValidationError with the friction test written with "and": no value
\* is both above 1 and below 0
ValidationError_FrictionAnd(p, sun) ==
    IF Len(p.resolution) # 2 THEN "resolution"
    ELSE IF Len(p.spawn_region) # 2 THEN "spawn_region"
    ELSE IF \E k \in 1..Len(p.spawn_region) : Len(p.spawn_region[k]) # 3
        THEN "spawn_region_point"
    ELSE IF Len(sun) # 3 THEN "sun_position"
    ELSE IF Len(p.camera_position) # 3 THEN "camera_position"
    ELSE IF Len(p.camera_look_at) # 3 THEN "camera_look_at"
    ELSE IF Len(p.floor_scale) # 3 THEN "floor_scale"
    ELSE IF Len(p.floor_position) # 3 THEN "floor_position"
    ELSE IF p.floor_friction > 10 /\ p.floor_friction < 0
        THEN "floor_friction"
    ELSE IF p.floor_restitution > 10 \/ p.floor_restitution < 0
        THEN "floor_restitution"
    ELSE ""

\* lines 98-147: the message of the first check that fails, "" when none
ValidationError(p, sun) ==
    IF Len(p.resolution) # 2 THEN "resolution"
    ELSE IF Len(p.spawn_region) # 2 THEN "spawn_region"
    ELSE IF \E k \in 1..Len(p.spawn_region) : Len(p.spawn_region[k]) # 3
        THEN "spawn_region_point"
    ELSE IF Len(sun) # 3 THEN "sun_position"
    ELSE IF Len(p.camera_position) # 3 THEN "camera_position"
    ELSE IF Len(p.camera_look_at) # 3 THEN "camera_look_at"
    ELSE IF Len(p.floor_scale) # 3 THEN "floor_scale"
    ELSE IF Len(p.floor_position) # 3 THEN "floor_position"
    ELSE IF p.floor_friction > 10 \/ p.floor_friction < 0
        THEN "floor_friction"
    ELSE IF p.floor_restitution > 10 \/ p.floor_restitution < 0
        THEN "floor_restitution"
    ELSE ""

\* ---------------------------------------------------------------- seeds
\* SeedChoices with replace=True: entries may repeat
SeedChoices_Replace(n) == [1..n -> 0..(SeedUpper - 1)]

\* rng.choice(2147483647, size=n, replace=False): the arrays it can return
SeedChoices(n) ==
    { s \in [1..n -> 0..(SeedUpper - 1)] :
        \A a, b \in 1..n : a # b => s[a] # s[b] }

\* ------------------------------------------------------- the loop body
\* Each step maps the dict under construction and the stream to the dict
\* and the stream after the step; err is the message of the raise, if any.
Step(lat, r, err) == [latents |-> lat, rng |-> r, err |-> err]

\* lines 155-166
HeadStep(p, seed) ==
    LET l1 == SetItem(EmptyDict, "seed", seed)
        l2 == SetItem(l1, "resolution", p.resolution)
        l3 == SetItem(l2, "spawn_region", p.spawn_region)
        l4 == SetItem(l3, "hdri_world", p.hdri_world)
    IN  Step(l4, RandomState(seed), "")

\* hdri.py lines 6-12: the identifier get_hdri_id returns
get_hdri_id(r) == choice(r, HDRI_IDS)

\* lines 168-194
WorldStep(p, lat, r) ==
    IF p.hdri_world
    THEN Step(SetItem(lat, "hdri_id", Some(get_hdri_id(r))),
              Advance(r, 1), "")
    ELSE LET l1 == SetItem(lat, "hdri_id", None)
             l2 == SetItem(l1, "bg_material", get_material(r))
             r2 == Advance(r, 1)
             l3 == SetItem(l2, "floor_position", p.floor_position)
         IN  IF p.background_type = "artificial"
             THEN Step(SetItem(l3, "bg_texture",
                          get_texture(choice(r2, TEXTURES),
                                      Advance(r2, 1), TRUE)),
                       Advance(r2, 2), "")
             ELSE IF p.background_type = "realistic"
             THEN Step(SetItem(l3, "bg_texture",
                          get_texture("IMAGE", r2, TRUE)),
                       Advance(r2, 1), "")
             ELSE Step(l3, r2, "background_type")

\* LightingStep that samples ambient_illumination on the ambient_hdri
\* branch too
LightingStep_AmbientSampled(p, lat, r) ==
    IF p.lighting = "sun"
    THEN LET l1 == SetItem(lat, "sun_position", Some(SunRef))
             l2 == SetItem(l1, "ambient_illumination",
                           Some(uniform(Advance(r, 2), 40, 70)))
             l3 == SetItem(l2, "lighting", p.lighting)
         IN  Step(l3, Advance(r, 3), "")
    ELSE IF p.lighting = "ambient_hdri"
    THEN LET l1 == SetItem(lat, "sun_position", None)
             l2 == SetItem(l1, "ambient_illumination",
                           Some(uniform(r, 40, 70)))
             l3 == SetItem(l2, "lighting", p.lighting)
         IN  Step(l3, Advance(r, 1), "")
    ELSE Step(lat, r, "lighting")

\* lines 198-220, the dict; the writes through latents["sun_position"]
\* land in the argument object, see SunWrite
LightingStep(p, lat, r) ==
    IF p.lighting = "sun"
    THEN LET l1 == SetItem(lat, "sun_position", Some(SunRef))
             l2 == SetItem(l1, "ambient_illumination",
                           Some(uniform(Advance(r, 2), 40, 70)))
             l3 == SetItem(l2, "lighting", p.lighting)
         IN  Step(l3, Advance(r, 3), "")
    ELSE IF p.lighting = "ambient_hdri"
    THEN LET l1 == SetItem(lat, "sun_position", None)
             l2 == SetItem(l1, "ambient_illumination", None)
             l3 == SetItem(l2, "lighting", p.lighting)
         IN  Step(l3, r, "")
    ELSE Step(lat, r, "lighting")

\* lines 199-201: the list object after latents["sun_position"][0] and [1]
\* are assigned
SunWrite(p, sun, r) ==
    IF p.lighting = "sun"
    THEN [[sun EXCEPT ![1] = uniform(r, -100, 100)]
               EXCEPT ![2] = uniform(Advance(r, 1), -100, 100)]
    ELSE sun

\* lines 223-241
StaticStep(p, lat, r) ==
    LET l1 == SetItem(lat, "camera_position", p.camera_position)
        l2 == SetItem(l1, "camera_look_at", p.camera_look_at)
        l3 == SetItem(l2, "camera_focal_length", p.camera_focal_length)
        l4 == SetItem(l3, "camera_sensor_width", p.camera_sensor_width)
        l5 == SetItem(l4, "floor_scale", p.floor_scale)
        l6 == SetItem(l5, "floor_friction", p.floor_friction)
        l7 == SetItem(l6, "floor_restitution", p.floor_restitution)
        l8 == SetItem(l7, "velocity_range", p.velocity_range)
    IN  Step(l8, r, "")

\* NumObjects with the exclusive upper end one too far
NumObjects_UpperTooFar(p, r) ==
    randint(r, p.min_num_objects, p.max_num_objects + 2)

\* line 247: the value of rng.randint(min_num_objects, max_num_objects + 1)
NumObjects(p, r) == randint(r, p.min_num_objects, p.max_num_objects + 1)

\* lines 247-264; randint raises ValueError when low >= high
ShapesStep(p, lat, r) ==
    IF p.min_num_objects >= p.max_num_objects + 1
    THEN Step(lat, r, "randint")
    ELSE LET n  == NumObjects(p, r)
             r1 == Advance(r, 1)
             l1 == SetItem(lat, "num_objects", n)
             l2 == SetItem(l1, "asset_source", p.asset_source)
         IN  IF p.asset_source = "kubasic"
             THEN Step(SetItem(SetItem(l2, "object_shapes",
                                  choice_size(r1, KUBASIC_IDS, n)),
                          "object_scales",
                          uniform_size(Advance(r1, n), 60, 120, n)),
                       Advance(r1, 2 * n), "")
             ELSE IF p.asset_source = "GSO"
             THEN Step(SetItem(SetItem(l2, "object_shapes",
                                  choice_size(r1, GSO_IDS, n)),
                          "object_scales",
                          uniform_size(Advance(r1, n), 600, 1000, n)),
                       Advance(r1, 2 * n), "")
             ELSE Step(l2, r1, "asset_source")

\* lines 267-290
AttributesStep(p, lat, r) ==
    LET n      == lat["num_objects"]
        angles == uniform_size(r, 0, 628, n)
        r1     == Advance(r, n)
        axes   == choice_size(r1, <<"x", "y", "z">>, n)
        r2     == Advance(r1, n)
        quats  == [k \in 1..n |-> get_quaternion(axes[k], angles[k])]
        texs   == [k \in 1..n |->
                     get_texture(choice(Advance(r2, 2 * (k - 1)), TEXTURES),
                                 Advance(r2, 2 * (k - 1) + 1), FALSE)]
        r3     == Advance(r2, 2 * n)
        mats   == [k \in 1..n |-> get_material(Advance(r3, k - 1))]
        l1 == SetItem(lat, "object_angles_of_rotation", angles)
        l2 == SetItem(l1, "object_axes_of_rotation", axes)
        l3 == SetItem(l2, "object_quaternions", quats)
        l4 == SetItem(l3, "object_textures", texs)
        l5 == SetItem(l4, "object_materials", mats)
    IN  Step(l5, Advance(r3, n), "")

\* ------------------------------------------------------------ the caller
\* what a reader of the scene dict sees: the dict with the list that
\* "sun_position" refers to read out
View(lat, sun) ==
    IF "sun_position" \in DOMAIN lat /\ lat["sun_position"] # None
    THEN SetItem(lat, "sun_position", Some(sun))
    ELSE lat

\* the returned list as its reader sees it
Views(scs, sun) == [k \in 1..Len(scs) |-> View(scs[k], sun)]

Init ==
    /\ \E n \in 0..MaxScenes :
         \/ /\ \E p \in ModeCalls : params = [num_scenes |-> n] @@ p
            /\ sun_position = <<0, 0, 700>>
         \/ /\ \E p \in ShapeCalls : params = [num_scenes |-> n] @@ p
            /\ sun_position \in SunPositions
    /\ pc = "validate"
    /\ error = ""
    /\ rng = NoRng
    /\ seeds = <<>>
    /\ i = 0
    /\ latents = EmptyDict
    /\ scenes = <<>>
    /\ opens = 0
    /\ history = None

\* lines 98-147
Validate ==
    /\ pc = "validate"
    /\ LET e == ValidationError(params, sun_position)
       IN  IF e # ""
           THEN pc' = "raised" /\ error' = e
           ELSE pc' = "seeds" /\ error' = error
    /\ UNCHANGED <<params, sun_position, rng, seeds, i, latents, scenes,
                   opens, history>>

\* lines 150-152; choice raises ValueError when the sample is larger than
\* the population
DrawSeeds ==
    /\ pc = "seeds"
    /\ rng' = DefaultRng
    /\ IF params.num_scenes > SeedUpper
       THEN pc' = "raised" /\ error' = "choice" /\ seeds' = seeds
       ELSE /\ seeds' \in SeedChoices(params.num_scenes)
            /\ pc' = "for"
            /\ error' = error
    /\ i' = 0
    /\ scenes' = <<>>
    /\ UNCHANGED <<params, sun_position, latents, opens, history>>

\* line 154, then lines 155-166 for the next seed, or line 295
ForSeed ==
    /\ pc = "for"
    /\ IF i < Len(seeds)
       THEN LET st == HeadStep(params, seeds[i + 1])
            IN  /\ i' = i + 1
                /\ latents' = st.latents
                /\ rng' = st.rng
                /\ pc' = "world"
       ELSE /\ pc' = "returned"
            /\ UNCHANGED <<i, latents, rng>>
    /\ UNCHANGED <<params, sun_position, error, seeds, scenes, opens,
                   history>>

\* lines 168-194; get_hdri_id opens and loads the manifest (hdri.py 7-8)
World ==
    /\ pc = "world"
    /\ LET st == WorldStep(params, latents, rng)
       IN  /\ latents' = st.latents
           /\ rng' = st.rng
           /\ IF st.err # ""
              THEN pc' = "raised" /\ error' = st.err
              ELSE pc' = "lighting" /\ error' = error
    /\ opens' = IF params.hdri_world THEN opens + 1 ELSE opens
    /\ UNCHANGED <<params, sun_position, seeds, i, scenes, history>>

\* lines 198-220
Lighting ==
    /\ pc = "lighting"
    /\ LET st == LightingStep(params, latents, rng)
       IN  /\ latents' = st.latents
           /\ rng' = st.rng
           /\ IF st.err # ""
              THEN pc' = "raised" /\ error' = st.err
              ELSE pc' = "static" /\ error' = error
    /\ sun_position' = SunWrite(params, sun_position, rng)
    /\ UNCHANGED <<params, seeds, i, scenes, opens, history>>

\* lines 223-241
Static ==
    /\ pc = "static"
    /\ LET st == StaticStep(params, latents, rng)
       IN  /\ latents' = st.latents
           /\ rng' = st.rng
    /\ pc' = "shapes"
    /\ UNCHANGED <<params, sun_position, error, seeds, i, scenes, opens,
                   history>>

\* lines 247-264
Shapes ==
    /\ pc = "shapes"
    /\ LET st == ShapesStep(params, latents, rng)
       IN  /\ latents' = st.latents
           /\ rng' = st.rng
           /\ IF st.err # ""
              THEN pc' = "raised" /\ error' = st.err
              ELSE pc' = "attributes" /\ error' = error
    /\ UNCHANGED <<params, sun_position, seeds, i, scenes, opens, history>>

\* lines 267-290
Attributes ==
    /\ pc = "attributes"
    /\ LET st == AttributesStep(params, latents, rng)
       IN  /\ latents' = st.latents
           /\ rng' = st.rng
    /\ pc' = "append"
    /\ UNCHANGED <<params, sun_position, error, seeds, i, scenes, opens,
                   history>>

\* line 293
AppendScene ==
    /\ pc = "append"
    /\ scenes' = Append(scenes, latents)
    /\ pc' = "for"
    /\ UNCHANGED <<params, sun_position, error, rng, seeds, i, latents,
                   opens, history>>

\* the caller reads the returned list, if any, and calls latent_dataset
\* again with the same arguments
NewCall ==
    /\ pc \in {"returned", "raised"}
    /\ history' = IF pc = "returned"
                  THEN Some(Views(scenes, sun_position))
                  ELSE history
    /\ pc' = "validate"
    /\ error' = ""
    /\ rng' = NoRng
    /\ seeds' = <<>>
    /\ i' = 0
    /\ latents' = EmptyDict
    /\ scenes' = <<>>
    /\ opens' = 0
    /\ UNCHANGED <<params, sun_position>>

Next ==
    \/ Validate
    \/ DrawSeeds
    \/ ForSeed
    \/ World
    \/ Lighting
    \/ Static
    \/ Shapes
    \/ Attributes
    \/ AppendScene
    \/ NewCall

Spec == Init /\ [][Next]_vars

\* ======================================================== properties
\* the scene dicts of the list the call returned, as their reader sees them
Returned == IF pc = "returned" THEN Views(scenes, sun_position) ELSE <<>>

ReturnedScenes == { Returned[k] : k \in 1..Len(Returned) }

\* C1: a call whose lighting, asset_source or background_type is outside
\* its enumeration ends in an error and never returns a list, for every
\* scene count and every value of the other arguments.
C1_InvalidModeNeverReturns ==
    (\/ params.lighting \notin {"sun", "ambient_hdri"}
     \/ params.asset_source \notin {"kubasic", "GSO"}
     \/ params.background_type \notin {"artificial", "realistic"})
    => pc # "returned"

\* the malformed arguments that C2 lists
Malformed ==
    \/ Len(params.resolution) # 2
    \/ Len(params.spawn_region) # 2
    \/ \E k \in DOMAIN params.spawn_region : Len(params.spawn_region[k]) # 3
    \/ \E v \in {sun_position, params.camera_position,
                 params.camera_look_at, params.floor_scale,
                 params.floor_position} : Len(v) # 3
    \/ params.floor_friction \notin 0..10
    \/ params.floor_restitution \notin 0..10

\* C2: with a malformed resolution, spawn_region, 3-vector, floor_friction
\* or floor_restitution the call raises before any seed is drawn and before
\* any scene config is created, and returns no list.
C2_MalformedFailsBeforeSeeds ==
    Malformed =>
        /\ pc \in {"validate", "raised"}
        /\ rng = NoRng
        /\ seeds = <<>>
        /\ latents = EmptyDict
        /\ scenes = <<>>

C2_Witness ==
    /\ Malformed
    /\ pc = "raised"
    /\ error = "floor_restitution"

\* a range argument whose lower end exceeds its upper end
RangeInverted ==
    \/ params.min_num_objects > params.max_num_objects
    \/ /\ Len(params.spawn_region) = 2
       /\ \A k \in 1..2 : Len(params.spawn_region[k]) = 3
       /\ \E c \in 1..3 : params.spawn_region[1][c] > params.spawn_region[2][c]

\* C3: a call with min_num_objects > max_num_objects, or with a spawn_region
\* whose min corner exceeds its max corner, fails in validation: it never
\* gets past validation, draws no seed and samples nothing.
C3_InvertedRangeFailsInValidation ==
    RangeInverted =>
        /\ pc \in {"validate", "raised"}
        /\ rng = NoRng

\* C4: two returned scene configs with the same seed, from the same
\* arguments, are identical in every field, sun_position included (the
\* list of the previous call against the list of this call).
C4_SameSeedSameScene ==
    (pc = "returned" /\ history # None) =>
        \A a \in 1..Len(history[1]) : \A b \in 1..Len(Returned) :
            history[1][a]["seed"] = Returned[b]["seed"]
                => history[1][a] = Returned[b]

\* C5: the returned list has exactly num_scenes scene configs, with
\* pairwise distinct seeds, each in [0, SeedUpper).
C5_DistinctSeeds ==
    pc = "returned" =>
        /\ Len(scenes) = params.num_scenes
        /\ \A a, b \in 1..Len(scenes) :
              a # b => scenes[a]["seed"] # scenes[b]["seed"]
        /\ \A a \in 1..Len(scenes) :
              scenes[a]["seed"] \in 0..(SeedUpper - 1)

C5_Witness ==
    /\ pc = "returned"
    /\ params.num_scenes = 2
    /\ Len(scenes) = 2

\* C6: in every returned scene config, hdri_world = true gives a non-null
\* hdri_id and no bg_material / bg_texture key; hdri_world = false gives a
\* null hdri_id and both keys; lighting "sun" gives a non-null sun_position
\* and an ambient_illumination in [0.4, 0.7]; lighting "ambient_hdri" gives
\* null for both.
C6_BranchFieldsAgree ==
    \A sc \in ReturnedScenes :
        /\ sc["hdri_world"] = TRUE =>
              /\ sc["hdri_id"] # None
              /\ "bg_material" \notin DOMAIN sc
              /\ "bg_texture" \notin DOMAIN sc
        /\ sc["hdri_world"] = FALSE =>
              /\ sc["hdri_id"] = None
              /\ "bg_material" \in DOMAIN sc
              /\ "bg_texture" \in DOMAIN sc
        /\ sc["lighting"] = "sun" =>
              /\ sc["sun_position"] # None
              /\ sc["ambient_illumination"] # None
              /\ sc["ambient_illumination"][1] \in 40..70
        /\ sc["lighting"] = "ambient_hdri" =>
              /\ sc["sun_position"] = None
              /\ sc["ambient_illumination"] = None

C6_Witness ==
    /\ pc = "returned"
    /\ Len(scenes) = 2
    /\ params.hdri_world
    /\ params.lighting = "ambient_hdri"
    /\ history # None
    /\ scenes[1]["hdri_id"] # scenes[2]["hdri_id"]

\* the catalog that asset_source selects
Catalog(source) == IF source = "kubasic" THEN KUBASIC_IDS ELSE GSO_IDS

Elements(seq) == { seq[k] : k \in 1..Len(seq) }

PerObjectKeys ==
    {"object_shapes", "object_scales", "object_angles_of_rotation",
     "object_axes_of_rotation", "object_quaternions", "object_textures",
     "object_materials"}

\* C7: in every returned scene config num_objects lies in
\* [min_num_objects, max_num_objects], each per-object array has exactly
\* num_objects entries, every axis is x, y or z and every shape belongs to
\* the catalog of asset_source.
C7_ObjectArrays ==
    \A sc \in ReturnedScenes :
        /\ sc["num_objects"] \in params.min_num_objects..params.max_num_objects
        /\ \A key \in PerObjectKeys :
              key \in DOMAIN sc /\ Len(sc[key]) = sc["num_objects"]
        /\ Elements(sc["object_axes_of_rotation"]) \subseteq {"x", "y", "z"}
        /\ Elements(sc["object_shapes"])
              \subseteq Elements(Catalog(params.asset_source))

\* both ends of a proper range are drawn within one returned list
C7_Witness ==
    /\ pc = "returned"
    /\ params.min_num_objects < params.max_num_objects
    /\ params.asset_source = "GSO"
    /\ \E sc \in ReturnedScenes : sc["num_objects"] = params.min_num_objects
    /\ \E sc \in ReturnedScenes : sc["num_objects"] = params.max_num_objects

StaticKeys ==
    {"resolution", "spawn_region", "camera_position", "camera_look_at",
     "camera_focal_length", "camera_sensor_width", "floor_scale",
     "floor_position", "floor_friction", "floor_restitution",
     "velocity_range", "asset_source"}

\* C8: every returned scene config, on both world branches and both
\* lighting branches, has each static field, equal to the argument.
C8_StaticFieldsCopied ==
    \A sc \in ReturnedScenes :
        \A key \in StaticKeys :
            key \in DOMAIN sc /\ sc[key] = params[key]

\* C9: during one call the HDRI manifest file is opened at most once.
C9_ManifestOpenedOnce == opens <= 1

\* C10: once a scene config is appended to the list, no later step of the
\* same call changes the value of any of its fields.
C10_NoLaterMutation ==
    [][pc \notin {"returned", "raised"} =>
          \A k \in 1..Len(scenes) :
              /\ k <= Len(scenes')
              /\ View(scenes'[k], sun_position') = View(scenes[k], sun_position)
      ]_vars

\* ------------------------------------------------------------ render_scene
\* render.py lines 92-94: background_hdri is assigned only on the
\* hdri_world branch of the world step
render_assigns_background_hdri(config) == config["hdri_world"] = TRUE

\* render.py lines 136-137: the ambient_hdri path of the lights step reads
\* background_hdri.filename
render_reads_background_hdri(config) == config["lighting"] = "ambient_hdri"

\* C11: every returned scene config that sends render_scene down the
\* ambient_hdri path has hdri_world = true and a non-null hdri_id, so the
\* background_hdri it reads was assigned; no returned config has lighting
\* "ambient_hdri" with hdri_world = false.
C11_AmbientHdriHasBackground ==
    \A sc \in ReturnedScenes :
        render_reads_background_hdri(sc) =>
            /\ render_assigns_background_hdri(sc)
            /\ sc["hdri_id"] # None
====
